---- MODULE Spec2Model ----
(***************************************************************************)
(* Day 17, the Chronospatial Computer (aoc::day17): a three-register       *)
(* machine with eight instructions, modelled from day17.cpp / day17.hpp.   *)
(*                                                                         *)
(* Two Computer objects are constructed from the same arguments.  Under    *)
(* Spec only the first one is driven; under SpecPair both are, so that two *)
(* runs from the same inputs can be compared.  The program has one thread: *)
(* a call on one Computer starts only when no call is in progress on the   *)
(* other.  FairSpec is Spec plus the progress the loop of run() has.       *)
(*                                                                         *)
(* Registers are int64_t.  No instruction makes a register larger in       *)
(* magnitude than the registers already are, so register values are kept   *)
(* as mathematical integers; the width matters only for the shift count:   *)
(* a right shift of an int64_t by a count outside 0..63 is undefined.      *)
(* What such a shift yields is fixed by the build (variable build): the    *)
(* count is masked to six bits, or the value is filled with its sign.      *)
(***************************************************************************)
EXTENDS Integers, Sequences, FiniteSets, TLC

\* ------------------------------------------------------------------ bounds
MaxProgLen == 2
MaxReg == 1
MaxOutput == 5      \* the model stops a Computer that would emit more
MaxBoxes == 2       \* day15: boxes in a warehouse map
MaxObstacles == 4   \* day06: obstacles in a grid
MaxMapLen == 4      \* day09: characters in a disk map
MaxDigit == 2       \* day09: the largest digit in a disk map
LongLongBits == 6   \* long long of math_utils, at a reduced width

\* -------------------------------------------------------- program constants
RegisterBits == 64

Computers == {1, 2}
Builds == {"mask", "fill"}

\* ------------------------------------------------------------------ inputs
ScenarioPrograms ==
    { <<0, 1, 5, 4, 3, 0>>,      \* halve A, emit A mod 8, loop while A # 0
      <<5, 0, 5, 1, 5, 4>>,      \* three emits
      <<5, 4, 3>>,               \* an emit followed by a trailing opcode
      <<3, 2, 5, 4>> }           \* a jump to the second instruction

\* bxl twice with the same literal
BxlTwice == { <<1, k, 1, k>> : k \in 0..7 }

Programs == UNION { [1..n -> 0..7] : n \in 0..MaxProgLen } \cup ScenarioPrograms
                \cup BxlTwice

RegA == (-MaxReg..MaxReg) \cup {10}
RegB == {-1, 0, 64}
RegC == {0, 9}

\* --------------------------------------------------------------- arithmetic
RECURSIVE BitOr(_, _)
BitOr(a, b) ==
    IF a \in {0, -1} /\ b \in {0, -1}
    THEN (IF a = -1 \/ b = -1 THEN -1 ELSE 0)
    ELSE (IF (a % 2) = 1 \/ (b % 2) = 1 THEN 1 ELSE 0)
            + 2 * BitOr(a \div 2, b \div 2)

RECURSIVE Xor(_, _)
\* operator ^ on two's complement integers (sign-extended, any width)
Xor(a, b) ==
    IF a \in {0, -1} /\ b \in {0, -1}
    THEN (IF a = b THEN 0 ELSE -1)
    ELSE (IF (a % 2) = (b % 2) THEN 0 ELSE 1) + 2 * Xor(a \div 2, b \div 2)

RECURSIVE SarOneMore(_, _)
SarOneMore(a, k) ==
    IF a \in {0, -1} THEN a
    ELSE IF k = 0 THEN a \div 2 ELSE SarOneMore(a \div 2, k - 1)

RECURSIVE Sar(_, _)
\* arithmetic right shift of a by k bits, 0 <= k < RegisterBits
Sar(a, k) ==
    IF k = 0 \/ a \in {0, -1} THEN a ELSE Sar(a \div 2, k - 1)

ShiftLeft(bld, a, k) == a * 2 ^ (k % 8)

\* operator >> on an int64_t with an int64_t count
ShiftRight(bld, a, k) ==
    IF k \in 0..(RegisterBits - 1) THEN Sar(a, k)
    ELSE IF bld = "mask" THEN Sar(a, k % RegisterBits)
    ELSE (IF a < 0 THEN -1 ELSE 0)

\* operator % 8 on an int64_t: the remainder has the sign of the dividend
Rem8(x) == IF x >= 0 THEN x % 8 ELSE -((-x) % 8)

\* ------------------------------------------------------------------ vector
atDefault(v, n) == IF n < Len(v) THEN <<v[n + 1]>> ELSE <<0>>

\* std::vector<int>::at with a zero-based index: <<element>>, or <<>> when it
\* throws std::out_of_range
at(v, n) == IF n < Len(v) THEN <<v[n + 1]>> ELSE <<>>

push_backFront(v, x) == <<x>> \o v

push_back(v, x) == Append(v, x)

\* ----------------------------------------------------------------- Program
isInBounds(instructions, index) == index + 1 < Len(instructions)

\* ---------------------------------------------------------------- Computer
ComputerUninitialised(program, A, B, C) ==
    { [program |-> program,
       state   |-> [A |-> A, B |-> B, C |-> C, instructionPointer |-> p],
       output  |-> <<>>] : p \in {0, 2} }

\* the objects Computer::Computer can produce
Computer(program, A, B, C) ==
    { [program |-> program,
       state   |-> [A |-> A, B |-> B, C |-> C, instructionPointer |-> 0],
       output  |-> <<>>] }

resolveComboLiteral(st, operand) == IF operand \in 0..7 THEN operand ELSE 0

resolveCombo(st, operand) ==
    CASE operand \in 0..3 -> operand
      [] operand = 4 -> st.A
      [] operand = 5 -> st.B
      [] operand = 6 -> st.C
      [] OTHER -> 0

isHaltedAtStrict(program, st) == st.instructionPointer > Len(program)

isHaltedAtOperand(program, st) == ~isInBounds(program, st.instructionPointer)

\* the test of Computer::isHalted
isHaltedAt(program, st) == st.instructionPointer >= Len(program)

jnzFallThrough(st, operand) ==
    IF st.A # 0
    THEN [instructionPointer |-> operand, jumped |-> FALSE]
    ELSE [instructionPointer |-> st.instructionPointer, jumped |-> FALSE]

\* case 3 of the switch: the pointer and the jumped flag it leaves
jnz(st, operand) ==
    IF st.A # 0
    THEN [instructionPointer |-> operand, jumped |-> TRUE]
    ELSE [instructionPointer |-> st.instructionPointer, jumped |-> FALSE]

bxcOperand(st, operand) == Xor(st.B, operand)

\* case 4 of the switch: the operand is read and not used
bxc(st, operand) == Xor(st.B, st.C)

advanceOne(instructionPointer) == instructionPointer + 1

\* the pointer after an instruction that did not jump
advance(instructionPointer) == instructionPointer + 2

\* the switch of executeInstruction followed by the pointer advance
Dispatch(bld, st, out, opcode, operand) ==
    LET combo == resolveCombo(st, operand)
        j == IF opcode = 3 THEN jnz(st, operand)
             ELSE [instructionPointer |-> st.instructionPointer, jumped |-> FALSE]
        regs ==
            CASE opcode = 0 -> [st EXCEPT !.A = ShiftRight(bld, st.A, combo)]
              [] opcode = 1 -> [st EXCEPT !.B = Xor(st.B, operand)]
              [] opcode = 2 -> [st EXCEPT !.B = Rem8(combo)]
              [] opcode = 4 -> [st EXCEPT !.B = bxc(st, operand)]
              [] opcode = 6 -> [st EXCEPT !.B = ShiftRight(bld, st.A, combo)]
              [] opcode = 7 -> [st EXCEPT !.C = ShiftRight(bld, st.A, combo)]
              [] OTHER -> st
        ip == IF j.jumped THEN j.instructionPointer
              ELSE advance(j.instructionPointer)
    IN  [state  |-> [regs EXCEPT !.instructionPointer = ip],
         output |-> IF opcode = 5 THEN push_back(out, Rem8(combo)) ELSE out,
         threw  |-> FALSE]

executeInstructionOnUnguarded(bld, program, st, out) ==
    LET opcode  == at(program, st.instructionPointer)
        operand == at(program, st.instructionPointer + 1)
    IN  IF opcode = <<>> \/ operand = <<>>
        THEN [state |-> st, output |-> out, threw |-> TRUE]
        ELSE Dispatch(bld, st, out, opcode[1], operand[1])

\* Computer::executeInstruction on one object: the state and output it
\* leaves, and whether vector::at threw std::out_of_range
executeInstructionOn(bld, program, st, out) ==
    IF isHaltedAt(program, st)
    THEN [state |-> st, output |-> out, threw |-> FALSE]
    ELSE LET opcode  == at(program, st.instructionPointer)
             operand == at(program, st.instructionPointer + 1)
         IN  IF opcode = <<>> \/ operand = <<>>
             THEN [state |-> st, output |-> out, threw |-> TRUE]
             ELSE Dispatch(bld, st, out, opcode[1], operand[1])

\* ------------------------------------------------------------------ strings
\* A std::string is the sequence of its characters.
Digit == <<"0", "1", "2", "3", "4", "5", "6", "7", "8", "9">>

IsDigit(ch) == \E d \in 1..10 : Digit[d] = ch

DigitValue(ch) == (CHOOSE d \in 1..10 : Digit[d] = ch) - 1

\* std::isspace, for the characters the inputs contain
IsSpace(ch) == ch = " "

RECURSIVE Decimal(_)
\* the digits of n >= 0
Decimal(n) ==
    IF n < 10 THEN <<Digit[n + 1]>> ELSE Decimal(n \div 10) \o <<Digit[(n % 10) + 1]>>

\* std::to_string(int)
to_string(n) == IF n < 0 THEN <<"-">> \o Decimal(-n) ELSE Decimal(n)

\* std::string::starts_with
starts_with(str, prefix) ==
    Len(prefix) <= Len(str) /\ SubSeq(str, 1, Len(prefix)) = prefix

\* std::string::substr(pos): <<the rest>>, or <<>> when it throws
\* std::out_of_range
substr(str, pos) ==
    IF pos > Len(str) THEN <<>> ELSE <<SubSeq(str, pos + 1, Len(str))>>

RECURSIVE SkipSpaces(_)
SkipSpaces(str) ==
    IF str # <<>> /\ IsSpace(str[1]) THEN SkipSpaces(Tail(str)) ELSE str

RECURSIVE LeadingDigits(_)
LeadingDigits(str) ==
    IF str # <<>> /\ IsDigit(str[1])
    THEN <<str[1]>> \o LeadingDigits(Tail(str))
    ELSE <<>>

RECURSIVE DigitsValue(_)
DigitsValue(ds) ==
    IF ds = <<>> THEN 0
    ELSE 10 * DigitsValue(SubSeq(ds, 1, Len(ds) - 1)) + DigitValue(ds[Len(ds)])

\* std::stoll and std::stoi: white space, a sign, digits; what follows the
\* digits is ignored.  <<value>>, or <<>> when there is no digit
\* (std::invalid_argument)
stoll(str) ==
    LET s1   == SkipSpaces(str)
        neg  == s1 # <<>> /\ s1[1] = "-"
        s2   == IF s1 # <<>> /\ s1[1] \in {"-", "+"} THEN Tail(s1) ELSE s1
        ds   == LeadingDigits(s2)
    IN  IF ds = <<>> THEN <<>>
        ELSE <<IF neg THEN -DigitsValue(ds) ELSE DigitsValue(ds)>>

RECURSIVE getline(_)
\* the tokens while (std::getline(ss, token, ',')) reads: a delimiter at the
\* very end is not followed by an empty token
getline(str) ==
    IF str = <<>> THEN <<>>
    ELSE IF \E i \in 1..Len(str) : str[i] = ","
         THEN LET i == CHOOSE k \in 1..Len(str) :
                           str[k] = "," /\ \A j \in 1..(k - 1) : str[j] # ","
              IN  <<SubSeq(str, 1, i - 1)>> \o getline(SubSeq(str, i + 1, Len(str)))
         ELSE <<str>>

RegisterAPrefix == <<"R", "e", "g", "i", "s", "t", "e", "r", " ", "A", ":">>
RegisterBPrefix == <<"R", "e", "g", "i", "s", "t", "e", "r", " ", "B", ":">>
RegisterCPrefix == <<"R", "e", "g", "i", "s", "t", "e", "r", " ", "C", ":">>
ProgramPrefix == <<"P", "r", "o", "g", "r", "a", "m", ":">>

\* ParsedInput result; -- a register not yet assigned is <<>> (indeterminate)
ParsedInput == [A |-> <<>>, B |-> <<>>, C |-> <<>>, program |-> <<>>,
                threw |-> FALSE]

RECURSIVE StoiAll(_)
\* result.program.push_back(std::stoi(token)) for each token: <<the vector>>,
\* or <<>> when a std::stoi throws
StoiAll(tokens) ==
    IF tokens = <<>> THEN <<<<>>>>
    ELSE LET v == stoll(tokens[1])
             rest == StoiAll(Tail(tokens))
         IN  IF v = <<>> \/ rest = <<>> THEN <<>> ELSE << <<v[1]>> \o rest[1] >>

\* one pass of the loop of parseInput over a line
ParseLine(result, line) ==
    LET register(field) ==
            LET v == stoll(substr(line, 11)[1])
            IN  IF v = <<>> THEN [result EXCEPT !.threw = TRUE]
                ELSE [result EXCEPT ![field] = v]
    IN  IF starts_with(line, RegisterAPrefix) THEN register("A")
        ELSE IF starts_with(line, RegisterBPrefix) THEN register("B")
        ELSE IF starts_with(line, RegisterCPrefix) THEN register("C")
        ELSE IF starts_with(line, ProgramPrefix)
        THEN LET program_str == substr(line, 9)
             IN  IF program_str = <<>> THEN [result EXCEPT !.threw = TRUE]
                 ELSE LET values == StoiAll(getline(program_str[1]))
                      IN  IF values = <<>> THEN [result EXCEPT !.threw = TRUE]
                          ELSE [result EXCEPT !.program = result.program \o values[1]]
        ELSE result

RECURSIVE ParseLines(_, _)
ParseLines(result, lines) ==
    IF lines = <<>> \/ result.threw THEN result
    ELSE ParseLines(ParseLine(result, lines[1]), Tail(lines))

\* parseInput: the fields assigned, and whether an exception left it
parseInput(input) == ParseLines(ParsedInput, input)

RECURSIVE joinTrailingComma(_)
joinTrailingComma(output) ==
    IF output = <<>> THEN <<>>
    ELSE joinTrailingComma(SubSeq(output, 1, Len(output) - 1))
            \o to_string(output[Len(output)]) \o <<",">>

RECURSIVE join(_)
\* the loop of runProgram that builds the result string
join(output) ==
    IF output = <<>> THEN <<>>
    ELSE join(SubSeq(output, 1, Len(output) - 1))
            \o (IF Len(output) > 1 THEN <<",">> ELSE <<>>)
            \o to_string(output[Len(output)])

NotImplemented ==
    <<"N", "o", "t", " ", "i", "m", "p", "l", "e", "m", "e", "n", "t", "e", "d">>

solve_part2AsPart1(input) == join(parseInput(input).program)

\* aoc::day17::solve_part2
solve_part2(input) == NotImplemented

\* --------------------------------------------------------------- math_utils
\* long long, two's complement, at the width of the model
MinLongLong == -(2 ^ (LongLongBits - 1))
MaxLongLong == 2 ^ (LongLongBits - 1) - 1
LongLong == MinLongLong..MaxLongLong

\* what a build makes of signed overflow and of division by zero: the value
\* wraps (a quotient by zero is 0), or the operation traps
MathBuilds == {"wrap", "trap"}

Wrap(n) == ((n - MinLongLong) % (2 ^ LongLongBits)) + MinLongLong

Abs(n) == IF n < 0 THEN -n ELSE n

\* operators / and % of C++: the quotient is truncated toward zero
Quot(a, b) ==
    LET q == Abs(a) \div Abs(b)
    IN  IF (a < 0) = (b < 0) THEN q ELSE -q

Rem(a, b) == a - b * Quot(a, b)

\* a / b or a % b is undefined: b is 0, or the quotient does not fit
DivisionUndefined(a, b) == b = 0 \/ (a = MinLongLong /\ b = -1)

\* one pass of the loop of gcd: temp = b; b = a % b; a = temp
gcdStep(a, b) == [a |-> b, b |-> IF DivisionUndefined(a, b) THEN 0 ELSE Rem(a, b)]

\* a / gcd(a, b) * b before it is narrowed to long long
lcmValue(a, b, g) == (IF DivisionUndefined(a, g) THEN 0 ELSE Quot(a, g)) * b

NoMathCall == [op |-> "none", x |-> 0, y |-> 0, a |-> 0, b |-> 0, g |-> 0,
               ret |-> 0, pc |-> "none"]

\* no Warehouse, no call of day06 and no disk exist
NoWarehouse == [part |-> 0]
NoPatrol == [fn |-> "none"]
NoDisk == [pc |-> "none"]

\* ------------------------------------------------------------------- state
VARIABLES
    program_,   \* program_[c].instructions of Computer c
    state_,     \* state_[c]: A, B, C, instructionPointer
    output_,    \* output_[c]
    args,       \* the registers the constructor was given
    build,      \* how this build resolves a shift count outside 0..63
    pc,         \* where the caller of Computer c is
    input,      \* the lines given to runProgram / solve_part2
    parsed,     \* the ParsedInput of runProgram
    result,     \* the string runProgram / solve_part2 returned
    math,       \* a call of aoc::utils::gcd or lcm: arguments, locals, position
    warehouse,  \* day15: the Warehouse, and the last try_move call on it
    patrol,     \* day06: a call of simulate_patrol, simulate_with_loop_detection
                \* or solve_part2: its arguments, locals and position
    disk        \* day09: solve_part1: the disk, left, right and position

vars == <<program_, state_, output_, args, build, pc, input, parsed, result, math,
          warehouse, patrol, disk>>

isHalted(c) == isHaltedAt(program_[c], state_[c])

Init ==
    /\ build \in Builds
    /\ \E program \in Programs, A \in RegA, B \in RegB, C \in RegC :
         \E k \in [Computers -> Computer(program, A, B, C)] :
            /\ program_ = [c \in Computers |-> k[c].program]
            /\ state_   = [c \in Computers |-> k[c].state]
            /\ output_  = [c \in Computers |-> k[c].output]
            /\ args     = [A |-> A, B |-> B, C |-> C]
    /\ pc = [c \in Computers |-> "ready"]
    /\ input = <<>>
    /\ parsed = ParsedInput
    /\ result = <<>>
    /\ math = NoMathCall
    /\ warehouse = NoWarehouse
    /\ patrol = NoPatrol
    /\ disk = NoDisk

\* one thread: no call is in progress on any Computer
NoCallInProgress == \A d \in Computers : pc[d] \notin {"test", "body", "direct"}

\* the caller enters run()
CallRun(c) ==
    /\ NoCallInProgress
    /\ pc[c] \in {"ready", "returned"}
    /\ pc' = [pc EXCEPT ![c] = "test"]
    /\ UNCHANGED <<program_, state_, output_, args, build, input, parsed, result, math, warehouse, patrol, disk>>

\* the loop condition of run(): while (!isHalted())
RunLoopTest(c) ==
    /\ pc[c] = "test"
    /\ pc' = [pc EXCEPT ![c] = IF isHalted(c) THEN "returned" ELSE "body"]
    /\ UNCHANGED <<program_, state_, output_, args, build, input, parsed, result, math, warehouse, patrol, disk>>

\* the caller calls executeInstruction() itself
CallExecuteInstruction(c) ==
    /\ NoCallInProgress
    /\ pc[c] \in {"ready", "returned"}
    /\ pc' = [pc EXCEPT ![c] = "direct"]
    /\ UNCHANGED <<program_, state_, output_, args, build, input, parsed, result, math, warehouse, patrol, disk>>

\* Computer::executeInstruction, from the body of run() or from the caller
executeInstruction(c) ==
    /\ pc[c] \in {"body", "direct"}
    /\ LET r == executeInstructionOn(build, program_[c], state_[c], output_[c])
       IN  /\ Len(r.output) <= MaxOutput
           /\ state_' = [state_ EXCEPT ![c] = r.state]
           /\ output_' = [output_ EXCEPT ![c] = r.output]
           /\ pc' = [pc EXCEPT ![c] =
                        IF r.threw THEN "threw"
                        ELSE IF pc[c] = "body" THEN "test" ELSE "ready"]
    /\ UNCHANGED <<program_, args, build, input, parsed, result, math, warehouse, patrol, disk>>

Next ==
    \E c \in {1} :
        \/ CallRun(c)
        \/ RunLoopTest(c)
        \/ CallExecuteInstruction(c)
        \/ executeInstruction(c)

Spec == Init /\ [][Next]_vars

NextPair ==
    \E c \in Computers :
        \/ CallRun(c)
        \/ RunLoopTest(c)
        \/ CallExecuteInstruction(c)
        \/ executeInstruction(c)

SpecPair == Init /\ [][NextPair]_vars

\* run() is a loop on one thread: once entered, it keeps going
FairSpec ==
    /\ Spec
    /\ WF_vars(RunLoopTest(1))
    /\ WF_vars(executeInstruction(1))

\* ------------------------------------------------------ runProgram, part 2
\* The text of the inputs: three register lines, an empty line, the program
\* line; one line may carry extra or missing white space, and the line of
\* register B may be missing.
InputRegA == {-1, 0, 10}
InputPrograms == { <<2, 6>>, <<5, 4>>, <<5, 0, 5, 1, 5, 4>>, <<0, 1, 5, 4, 3, 0>> }
Variations == {"plain", "leadA", "trailA", "noSpaceA",
               "leadP", "trailP", "noSpaceP", "wideP"}

RECURSIVE ProgramText(_)
ProgramText(p) ==
    IF p = <<>> THEN <<>>
    ELSE to_string(p[1]) \o (IF Len(p) > 1 THEN <<",">> ELSE <<>>)
            \o ProgramText(Tail(p))

Lines(A, program, withB, variation) ==
    LET sp(v) == IF variation = v THEN <<" ">> ELSE <<>>
        gap(v) == IF variation = v THEN <<>> ELSE <<" ">>
        lineA == sp("leadA") \o RegisterAPrefix \o gap("noSpaceA")
                    \o to_string(A) \o sp("trailA")
        lineB == RegisterBPrefix \o <<" ">> \o to_string(0)
        lineC == RegisterCPrefix \o <<" ">> \o to_string(9)
        lineP == sp("leadP") \o ProgramPrefix \o gap("noSpaceP") \o sp("wideP")
                    \o ProgramText(program) \o sp("trailP")
    IN  <<lineA>> \o (IF withB THEN <<lineB>> ELSE <<>>) \o <<lineC, <<>>, lineP>>

Inputs ==
    { Lines(A, program, withB, variation) :
        A \in InputRegA, program \in InputPrograms,
        withB \in BOOLEAN, variation \in Variations }

\* what an int64_t that was never assigned can hold
Indeterminate == {0, 5}

RegisterValues(field) == IF field = <<>> THEN Indeterminate ELSE {field[1]}

\* before runProgram has constructed its Computer there is none: the
\* Computer variables hold a placeholder
InitSolver ==
    /\ build \in Builds
    /\ input \in Inputs
    /\ parsed = ParsedInput
    /\ result = <<>>
    /\ math = NoMathCall
    /\ warehouse = NoWarehouse
    /\ patrol = NoPatrol
    /\ disk = NoDisk
    /\ pc = [c \in Computers |-> "entry"]
    /\ program_ = [c \in Computers |-> <<>>]
    /\ state_ = [c \in Computers |->
                    [A |-> 0, B |-> 0, C |-> 0, instructionPointer |-> 0]]
    /\ output_ = [c \in Computers |-> <<>>]
    /\ args = [A |-> 0, B |-> 0, C |-> 0]

\* runProgram: auto parsed = parseInput(input);
runProgramParse(c) ==
    /\ pc[c] = "entry"
    /\ parsed' = parseInput(input)
    /\ pc' = [pc EXCEPT ![c] = IF parsed'.threw THEN "parse_threw" ELSE "parsed"]
    /\ UNCHANGED <<program_, state_, output_, args, build, input, result, math, warehouse, patrol, disk>>

\* runProgram: Computer computer{program, parsed.A, parsed.B, parsed.C};
\* computer.run();
runProgramConstruct(c) ==
    /\ pc[c] = "parsed"
    /\ \E A \in RegisterValues(parsed.A), B \in RegisterValues(parsed.B),
          C \in RegisterValues(parsed.C) :
         \E k \in Computer(parsed.program, A, B, C) :
            /\ program_' = [program_ EXCEPT ![c] = k.program]
            /\ state_' = [state_ EXCEPT ![c] = k.state]
            /\ output_' = [output_ EXCEPT ![c] = k.output]
            /\ args' = [A |-> A, B |-> B, C |-> C]
    /\ pc' = [pc EXCEPT ![c] = "test"]
    /\ UNCHANGED <<build, input, parsed, result, math, warehouse, patrol, disk>>

\* runProgram: the loop that joins the output, and the return
runProgramJoin(c) ==
    /\ pc[c] = "returned"
    /\ result' = join(output_[c])
    /\ pc' = [pc EXCEPT ![c] = "done"]
    /\ UNCHANGED <<program_, state_, output_, args, build, input, parsed, math, warehouse, patrol, disk>>

\* solve_part2 called on the input
SolvePart2(c) ==
    /\ pc[c] = "entry"
    /\ result' = solve_part2(input)
    /\ pc' = [pc EXCEPT ![c] = "part2_done"]
    /\ UNCHANGED <<program_, state_, output_, args, build, input, parsed, math, warehouse, patrol, disk>>

NextSolver ==
    \E c \in {1} :
        \/ runProgramParse(c)
        \/ runProgramConstruct(c)
        \/ RunLoopTest(c)
        \/ executeInstruction(c)
        \/ runProgramJoin(c)
        \/ SolvePart2(c)

SpecSolver == InitSolver /\ [][NextSolver]_vars

\* ------------------------------------------------------------ gcd and lcm
\* a call of gcd(x, y) or lcm(x, y); no Computer exists
InitMath ==
    /\ build \in MathBuilds
    /\ \E op \in {"gcd", "lcm"}, x \in LongLong, y \in LongLong :
          math = [op |-> op, x |-> x, y |-> y, a |-> x, b |-> y, g |-> 0,
                  ret |-> 0, pc |-> "loop"]
    /\ input = <<>>
    /\ parsed = ParsedInput
    /\ result = <<>>
    /\ pc = [c \in Computers |-> "entry"]
    /\ program_ = [c \in Computers |-> <<>>]
    /\ state_ = [c \in Computers |->
                    [A |-> 0, B |-> 0, C |-> 0, instructionPointer |-> 0]]
    /\ output_ = [c \in Computers |-> <<>>]
    /\ args = [A |-> 0, B |-> 0, C |-> 0]
    /\ warehouse = NoWarehouse
    /\ patrol = NoPatrol
    /\ disk = NoDisk

\* gcd: the body of while (b != 0)
gcdLoop ==
    /\ math.pc = "loop"
    /\ math.b # 0
    /\ IF DivisionUndefined(math.a, math.b) /\ build = "trap"
       THEN math' = [math EXCEPT !.pc = "trapped"]
       ELSE LET n == gcdStep(math.a, math.b)
            IN  math' = [math EXCEPT !.a = n.a, !.b = n.b]
    /\ UNCHANGED <<program_, state_, output_, args, build, pc, input, parsed, result,
                   warehouse, patrol, disk>>

\* gcd: return a, to the caller or into lcm
gcdReturn ==
    /\ math.pc = "loop"
    /\ math.b = 0
    /\ math' = IF math.op = "gcd"
               THEN [math EXCEPT !.g = math.a, !.ret = math.a, !.pc = "returned"]
               ELSE [math EXCEPT !.g = math.a, !.pc = "lcm"]
    /\ UNCHANGED <<program_, state_, output_, args, build, pc, input, parsed, result,
                   warehouse, patrol, disk>>

\* lcm: return a / gcd(a, b) * b
lcmReturn ==
    /\ math.pc = "lcm"
    /\ LET v == lcmValue(math.x, math.y, math.g)
           undefined == DivisionUndefined(math.x, math.g) \/ v \notin LongLong
       IN  math' = IF undefined /\ build = "trap"
                   THEN [math EXCEPT !.pc = "trapped"]
                   ELSE [math EXCEPT !.ret = Wrap(v), !.pc = "returned"]
    /\ UNCHANGED <<program_, state_, output_, args, build, pc, input, parsed, result,
                   warehouse, patrol, disk>>

NextMath == gcdLoop \/ gcdReturn \/ lcmReturn

\* a call runs on: nothing else is scheduled
SpecMath == InitMath /\ [][NextMath]_vars /\ WF_vars(NextMath)

\* ------------------------------------------------------------------ day15
\* the Computer, solver and math variables, which day15, day06 and day09
\* leave alone
day17Vars == <<program_, state_, output_, args, build, pc, input, parsed, result, math>>

\* A std::vector<std::string> grid is the sequence of its rows, a row the
\* sequence of its characters; a Position is zero-based, x the column.
day15_Direction == {"Up", "Down", "Left", "Right"}

get_delta(dir) ==
    CASE dir = "Up"    -> [x |-> 0, y |-> -1]
      [] dir = "Down"  -> [x |-> 0, y |-> 1]
      [] dir = "Left"  -> [x |-> -1, y |-> 0]
      [] dir = "Right" -> [x |-> 1, y |-> 0]

\* Position::operator+
Plus(p, delta) == [x |-> p.x + delta.x, y |-> p.y + delta.y]

\* grid[p.y][p.x]
Tile(grid, p) == grid[p.y + 1][p.x + 1]

\* grid[p.y][p.x] = ch
SetTile(grid, p, ch) == [grid EXCEPT ![p.y + 1][p.x + 1] = ch]

Cells(grid) ==
    { [x |-> x, y |-> y] : x \in 0..(Len(grid[1]) - 1), y \in 0..(Len(grid) - 1) }

\* wall-enclosed floors without robot and boxes
Floors ==
    { << <<"#", "#", "#", "#", "#">>,
         <<"#", ".", ".", ".", "#">>,
         <<"#", ".", ".", ".", "#">>,
         <<"#", ".", ".", ".", "#">>,
         <<"#", ".", ".", ".", "#">>,
         <<"#", "#", "#", "#", "#">> >>,
      << <<"#", "#", "#", "#", "#">>,
         <<"#", ".", ".", "#", "#">>,
         <<"#", ".", ".", ".", "#">>,
         <<"#", ".", ".", ".", "#">>,
         <<"#", "#", "#", "#", "#">> >> }

RECURSIVE SetTiles(_, _, _)
SetTiles(grid, ps, ch) ==
    IF ps = {} THEN grid
    ELSE LET p == CHOOSE q \in ps : TRUE
         IN  SetTiles(SetTile(grid, p, ch), ps \ {p}, ch)

\* the maps: a floor with the robot on one free cell and at most MaxBoxes
\* boxes on others
Free(floor) == { p \in Cells(floor) : Tile(floor, p) = "." }

MapsOn(floor) ==
    { SetTile(SetTiles(floor, boxes, "O"), robot, "@") :
        robot \in Free(floor),
        boxes \in { b \in SUBSET Free(floor) : Cardinality(b) <= MaxBoxes } }

Maps == UNION { MapsOn(floor) : floor \in Floors }

\* parse_input: robot_pos is the first '@' in row order
FirstRobot(grid) ==
    LET at_ == { p \in Cells(grid) : Tile(grid, p) = "@" }
    IN  CHOOSE p \in at_ : \A q \in at_ : p.y < q.y \/ (p.y = q.y /\ p.x <= q.x)

parse_input(grid) ==
    [grid |-> grid, robot_pos |-> FirstRobot(grid),
     width |-> Len(grid[1]), height |-> Len(grid)]

scanOnce(grid, scan, delta) == scan

RECURSIVE scanBoxes(_, _, _)
\* try_move_part1: while (grid[scan.y][scan.x] == 'O') scan += delta
scanBoxes(grid, scan, delta) ==
    IF Tile(grid, scan) = "O" THEN scanBoxes(grid, Plus(scan, delta), delta)
    ELSE scan

\* the last three statements of both try_move functions
MoveRobot(grid, robot_pos, target) ==
    SetTile(SetTile(grid, robot_pos, "."), target, "@")

\* try_move_part1: the grid and robot_pos it leaves, and what it returns
try_move_part1(w, dir) ==
    LET delta == get_delta(dir)
        target == Plus(w.robot_pos, delta)
        blocked == [grid |-> w.grid, robot_pos |-> w.robot_pos, ret |-> FALSE]
    IN  IF Tile(w.grid, target) = "#" THEN blocked
        ELSE IF Tile(w.grid, target) = "O"
        THEN LET scan == scanBoxes(w.grid, Plus(target, delta), delta)
             IN  IF Tile(w.grid, scan) = "#" THEN blocked
                 ELSE [grid |-> MoveRobot(SetTile(w.grid, scan, "O"),
                                          w.robot_pos, target),
                       robot_pos |-> target, ret |-> TRUE]
        ELSE [grid |-> MoveRobot(w.grid, w.robot_pos, target),
              robot_pos |-> target, ret |-> TRUE]

\* std::string::erase(pos, 1) and std::string::insert(pos, 1, ch)
erase(row, pos) == SubSeq(row, 1, pos) \o SubSeq(row, pos + 2, Len(row))
insert(row, pos, ch) == SubSeq(row, 1, pos) \o <<ch>> \o SubSeq(row, pos + 1, Len(row))

IsBoxHalf(tile) == tile = "[" \/ tile = "]"

RECURSIVE scanWide(_, _, _)
\* try_move_part2: while (the tile at scan is '[' or ']') scan += delta
scanWide(grid, scan, delta) ==
    IF IsBoxHalf(Tile(grid, scan)) THEN scanWide(grid, Plus(scan, delta), delta)
    ELSE scan

otherHalfSame(tile, current) == current

\* the other half of the box that has a half at current
otherHalf(tile, current) ==
    IF tile = "[" THEN [x |-> current.x + 1, y |-> current.y]
    ELSE [x |-> current.x - 1, y |-> current.y]

RECURSIVE Search(_, _, _, _, _)
\* the while (!q.empty()) loop of try_move_part2
Search(grid, q, seen, to_move, delta) ==
    IF q = <<>> THEN [blocked |-> FALSE, to_move |-> to_move]
    ELSE LET current == Head(q)
             tile == Tile(grid, current)
         IN  IF current \in seen THEN Search(grid, Tail(q), seen, to_move, delta)
             ELSE IF tile = "#" THEN [blocked |-> TRUE, to_move |-> to_move]
             ELSE IF IsBoxHalf(tile)
             THEN Search(grid,
                         Tail(q) \o <<Plus(current, delta), otherHalf(tile, current)>>,
                         seen \cup {current}, Append(to_move, current), delta)
             ELSE Search(grid, Tail(q), seen \cup {current}, to_move, delta)

RECURSIVE ClearAll(_, _)
\* the first for loop after the search: every position to move becomes '.'
ClearAll(grid, to_move) ==
    IF to_move = <<>> THEN grid
    ELSE ClearAll(SetTile(grid, Head(to_move), "."), Tail(to_move))

RECURSIVE PlaceAll(_, _, _, _)
\* the second for loop: every stored character is written one cell further
PlaceAll(grid, old, to_move, delta) ==
    IF to_move = <<>> THEN grid
    ELSE PlaceAll(SetTile(grid, Plus(Head(to_move), delta), Tile(old, Head(to_move))),
                  old, Tail(to_move), delta)

\* try_move_part2: the grid and robot_pos it leaves, and what it returns
try_move_part2(w, dir) ==
    LET delta == get_delta(dir)
        target == Plus(w.robot_pos, delta)
        scan == scanWide(w.grid, target, delta)
        horizontal == dir \in {"Left", "Right"}
        found == Search(w.grid, <<target>>, {}, <<>>, delta)
        moved == PlaceAll(ClearAll(w.grid, found.to_move), w.grid,
                          found.to_move, delta)
    IN  IF horizontal /\ Tile(w.grid, scan) = "#"
        THEN [grid |-> w.grid, robot_pos |-> w.robot_pos, ret |-> FALSE]
        ELSE IF horizontal /\ Tile(w.grid, scan) = "."
        THEN [grid |-> [w.grid EXCEPT ![scan.y + 1] =
                           insert(erase(@, scan.x), w.robot_pos.x, ".")],
              robot_pos |-> target, ret |-> TRUE]
        ELSE IF found.blocked
        THEN [grid |-> w.grid, robot_pos |-> w.robot_pos, ret |-> FALSE]
        ELSE [grid |-> MoveRobot(moved, w.robot_pos, target),
              robot_pos |-> target, ret |-> TRUE]

RECURSIVE expandLine(_)
\* the switch of expand_warehouse over the characters of a line
expandLine(line) ==
    IF line = <<>> THEN <<>>
    ELSE (CASE Head(line) = "O" -> <<"[", "]">>
            [] Head(line) = "@" -> <<"@", ".">>
            [] OTHER -> <<Head(line), Head(line)>>) \o expandLine(Tail(line))

expand_warehouse(w) ==
    [grid |-> [y \in 1..Len(w.grid) |-> expandLine(w.grid[y])],
     robot_pos |-> [x |-> w.robot_pos.x * 2, y |-> w.robot_pos.y],
     width |-> w.width * 2, height |-> w.height]

\* the Warehouse before any move: part 1 works on the parsed map, part 2 on
\* the expanded one
Started(w, part) ==
    [part |-> part, grid |-> w.grid, robot_pos |-> w.robot_pos,
     dir |-> "none", ret |-> <<>>,
     grid_before |-> w.grid, robot_before |-> w.robot_pos]

NoDay17 ==
    /\ build = "mask"
    /\ input = <<>>
    /\ parsed = ParsedInput
    /\ result = <<>>
    /\ pc = [c \in Computers |-> "entry"]
    /\ program_ = [c \in Computers |-> <<>>]
    /\ state_ = [c \in Computers |->
                    [A |-> 0, B |-> 0, C |-> 0, instructionPointer |-> 0]]
    /\ output_ = [c \in Computers |-> <<>>]
    /\ args = [A |-> 0, B |-> 0, C |-> 0]
    /\ math = NoMathCall

InitPart1 ==
    /\ \E map \in Maps : warehouse = Started(parse_input(map), 1)
    /\ NoDay17
    /\ patrol = NoPatrol
    /\ disk = NoDisk

InitPart2 ==
    /\ \E map \in Maps : warehouse = Started(expand_warehouse(parse_input(map)), 2)
    /\ NoDay17
    /\ patrol = NoPatrol
    /\ disk = NoDisk

\* one iteration of the loop of day15 solve_part1 or solve_part2: a
\* direction from the instructions, and the try_move call on it
TryMove(dir) ==
    /\ warehouse.part \in {1, 2}
    /\ LET r == IF warehouse.part = 1 THEN try_move_part1(warehouse, dir)
                ELSE try_move_part2(warehouse, dir)
       IN  warehouse' = [part |-> warehouse.part,
                         grid |-> r.grid, robot_pos |-> r.robot_pos,
                         dir |-> dir, ret |-> <<r.ret>>,
                         grid_before |-> warehouse.grid,
                         robot_before |-> warehouse.robot_pos]
    /\ UNCHANGED <<day17Vars, patrol, disk>>

NextWarehouse == \E dir \in day15_Direction : TryMove(dir)

SpecPart1 == InitPart1 /\ [][NextWarehouse]_vars

SpecPart2 == InitPart2 /\ [][NextWarehouse]_vars

\* ------------------------------------------------------------------ day06
\* enum class Direction { UP, RIGHT, DOWN, LEFT }, in the order of its values
DirectionOrder == <<"UP", "RIGHT", "DOWN", "LEFT">>
day06_Direction == { DirectionOrder[i] : i \in 1..Len(DirectionOrder) }

\* static_cast<int>(dir)
DirectionValue(dir) == (CHOOSE i \in 1..Len(DirectionOrder) : DirectionOrder[i] = dir) - 1

get_direction_delta(dir) ==
    CASE dir = "UP"    -> [dx |-> 0, dy |-> -1]
      [] dir = "RIGHT" -> [dx |-> 1, dy |-> 0]
      [] dir = "DOWN"  -> [dx |-> 0, dy |-> 1]
      [] dir = "LEFT"  -> [dx |-> -1, dy |-> 0]

turn_rightAround(dir) == DirectionOrder[((DirectionValue(dir) + 2) % 4) + 1]

turn_right(dir) == DirectionOrder[((DirectionValue(dir) + 1) % 4) + 1]

is_in_bounds(x, y, width, height) == x >= 0 /\ x < width /\ y >= 0 /\ y < height

\* the grids: obstacles on some of these cells of an empty grid, at most
\* MaxObstacles of them. The first four close a loop between them.
EmptyGrid ==
    << <<".", ".", ".", ".">>,
       <<".", ".", ".", ".">>,
       <<".", ".", ".", ".">>,
       <<".", ".", ".", ".">> >>

ObstacleCells ==
    { [x |-> 1, y |-> 0], [x |-> 3, y |-> 1], [x |-> 2, y |-> 3],
      [x |-> 0, y |-> 2], [x |-> 2, y |-> 1] }

Grids ==
    { SetTiles(EmptyGrid, obstacles, "#") :
        obstacles \in { o \in SUBSET ObstacleCells : Cardinality(o) <= MaxObstacles } }

\* where a guard can start: on a cell that is not an obstacle, or at the
\* {-1, -1} find_guard_start returns when it finds no guard
Starts(grid) ==
    { p \in Cells(grid) : Tile(grid, p) # "#" } \cup { [x |-> -1, y |-> -1] }

\* one pass of the body of while (true) of simulate_with_loop_detection, on
\* its locals: the locals it leaves, and the value it returns, if it does
loopIteration(grid, obstruction_pos, l) ==
    LET width == Len(grid[1])
        height == Len(grid)
        d == get_direction_delta(l.current_dir)
        next_x == l.current_x + d.dx
        next_y == l.current_y + d.dy
        is_blocked ==
            /\ is_in_bounds(next_x, next_y, width, height)
            /\ \/ grid[next_y + 1][next_x + 1] = "#"
               \/ /\ obstruction_pos # <<>>
                  /\ next_x = obstruction_pos[1].x
                  /\ next_y = obstruction_pos[1].y
        here == <<l.current_x, l.current_y, l.current_dir>>
    IN  IF ~is_in_bounds(l.current_x, l.current_y, width, height)
        THEN [l EXCEPT !.ret = <<FALSE>>]
        ELSE IF here \in l.visited
        THEN [l EXCEPT !.ret = <<TRUE>>]
        ELSE IF is_blocked
        THEN [l EXCEPT !.visited = @ \cup {here},
                       !.current_dir = turn_right(l.current_dir)]
        ELSE [l EXCEPT !.visited = @ \cup {here},
                       !.current_x = next_x, !.current_y = next_y]

\* the locals of simulate_with_loop_detection and of simulate_patrol at entry
Locals(start_x, start_y, start_dir) ==
    [current_x |-> start_x, current_y |-> start_y, current_dir |-> start_dir,
     visited |-> {}, ret |-> <<>>]

RECURSIVE loopFrom(_, _, _)
loopFrom(grid, obstruction_pos, l) ==
    IF l.ret # <<>> THEN l.ret[1]
    ELSE loopFrom(grid, obstruction_pos, loopIteration(grid, obstruction_pos, l))

simulate_with_loop_detectionNever(grid, start_x, start_y, start_dir, obstruction_pos) ==
    FALSE

\* simulate_with_loop_detection as a function of its arguments
simulate_with_loop_detection(grid, start_x, start_y, start_dir, obstruction_pos) ==
    loopFrom(grid, obstruction_pos, Locals(start_x, start_y, start_dir))

\* one test of the condition of while (is_in_bounds(...)) of simulate_patrol
\* (and of the same loop in solve_part2), and the body if it holds; visited
\* is a BitPackedVisited, ret its count() when the loop is over
patrolIteration(grid, l) ==
    LET width == Len(grid[1])
        height == Len(grid)
        d == get_direction_delta(l.current_dir)
        next_x == l.current_x + d.dx
        next_y == l.current_y + d.dy
        here == <<l.current_x, l.current_y>>
    IN  IF ~is_in_bounds(l.current_x, l.current_y, width, height)
        THEN [l EXCEPT !.ret = <<Cardinality(l.visited)>>]
        ELSE IF is_in_bounds(next_x, next_y, width, height)
                  /\ grid[next_y + 1][next_x + 1] = "#"
        THEN [l EXCEPT !.visited = @ \cup {here},
                       !.current_dir = turn_right(l.current_dir)]
        ELSE [l EXCEPT !.visited = @ \cup {here},
                       !.current_x = next_x, !.current_y = next_y]

RECURSIVE countFrom(_, _, _, _, _, _)
\* the candidate loop of solve_part2 from cell number i in row order
countFrom(grid, start_x, start_y, start_dir, visited, i) ==
    LET width == Len(grid[1])
        height == Len(grid)
        x == i % width
        y == i \div width
        skip == \/ (x = start_x /\ y = start_y)
                \/ <<x, y>> \notin visited
                \/ grid[y + 1][x + 1] = "#"
        one == IF ~skip /\ simulate_with_loop_detection(
                              grid, start_x, start_y, start_dir, <<[x |-> x, y |-> y]>>)
               THEN 1 ELSE 0
    IN  IF i >= width * height THEN 0
        ELSE one + countFrom(grid, start_x, start_y, start_dir, visited, i + 1)

\* the character of a guard facing dir
GuardChar(dir) ==
    CASE dir = "UP" -> "^" [] dir = "RIGHT" -> ">" [] dir = "DOWN" -> "v" [] dir = "LEFT" -> "<"

\* find_guard_start: the first guard in row order is taken off the grid
find_guard_start(grid) ==
    LET guards == { p \in Cells(grid) : Tile(grid, p) \in {"^", ">", "v", "<"} }
        first == CHOOSE p \in guards :
                    \A q \in guards : p.y < q.y \/ (p.y = q.y /\ p.x <= q.x)
        ch == Tile(grid, first)
    IN  IF guards = {}
        THEN [grid |-> grid, x |-> -1, y |-> -1, dir |-> "UP"]
        ELSE [grid |-> SetTile(grid, first, "."), x |-> first.x, y |-> first.y,
              dir |-> CHOOSE dir \in day06_Direction : GuardChar(dir) = ch]

\* a call of simulate_patrol or of simulate_with_loop_detection at entry
Called(fn, grid, start, start_dir, obstruction_pos) ==
    [fn |-> fn, grid |-> grid, start_x |-> start.x, start_y |-> start.y,
     start_dir |-> start_dir, obstruction_pos |-> obstruction_pos,
     l |-> Locals(start.x, start.y, start_dir), pc |-> "loop"]

InitPatrol ==
    /\ \E grid \in Grids, start_dir \in day06_Direction :
         \E start \in Starts(grid) :
            \/ patrol = Called("simulate_patrol", grid, start, start_dir, <<>>)
            \/ \E obstruction_pos \in {<<>>} \cup { <<p>> : p \in Cells(grid) } :
                  patrol = Called("simulate_with_loop_detection", grid, start,
                                  start_dir, obstruction_pos)
    /\ NoDay17
    /\ warehouse = NoWarehouse
    /\ disk = NoDisk

\* simulate_with_loop_detection: one pass of while (true)
simulate_with_loop_detectionStep ==
    /\ patrol.fn = "simulate_with_loop_detection"
    /\ patrol.pc = "loop"
    /\ LET l == loopIteration(patrol.grid, patrol.obstruction_pos, patrol.l)
       IN  patrol' = [patrol EXCEPT !.l = l,
                         !.pc = IF l.ret # <<>> THEN "returned" ELSE "loop"]
    /\ UNCHANGED <<day17Vars, warehouse, disk>>

\* simulate_patrol: one test of the loop condition, then the body or the
\* return
simulate_patrolStep ==
    /\ patrol.fn = "simulate_patrol"
    /\ patrol.pc = "loop"
    /\ LET l == patrolIteration(patrol.grid, patrol.l)
       IN  patrol' = [patrol EXCEPT !.l = l,
                         !.pc = IF l.ret # <<>> THEN "returned" ELSE "loop"]
    /\ UNCHANGED <<day17Vars, warehouse, disk>>

NextPatrol == simulate_with_loop_detectionStep \/ simulate_patrolStep

\* a call that has been entered runs on
SpecPatrol == InitPatrol /\ [][NextPatrol]_vars /\ WF_vars(NextPatrol)

\* day06 solve_part2 on a grid with one guard on it
InitDay06Part2 ==
    /\ \E grid \in Grids, start_dir \in day06_Direction :
         \E start \in Starts(grid) \cap Cells(grid) :
            LET g == find_guard_start(SetTile(grid, start, GuardChar(start_dir)))
            IN  patrol = [fn |-> "solve_part2", grid |-> g.grid,
                          start_x |-> g.x, start_y |-> g.y, start_dir |-> g.dir,
                          obstruction_pos |-> <<>>,
                          l |-> Locals(g.x, g.y, g.dir), pc |-> "loop"]
    /\ NoDay17
    /\ warehouse = NoWarehouse
    /\ disk = NoDisk

\* solve_part2: one test of the condition of its first loop, then the body,
\* or on to the candidates
solve_part2Patrol ==
    /\ patrol.fn = "solve_part2"
    /\ patrol.pc = "loop"
    /\ LET l == patrolIteration(patrol.grid, patrol.l)
       IN  patrol' = IF l.ret # <<>>
                     THEN [patrol EXCEPT !.pc = "candidates"]
                     ELSE [patrol EXCEPT !.l = l]
    /\ UNCHANGED <<day17Vars, warehouse, disk>>

\* solve_part2: the loops over y and x, and the return
solve_part2Count ==
    /\ patrol.fn = "solve_part2"
    /\ patrol.pc = "candidates"
    /\ patrol' = [patrol EXCEPT
                     !.l.ret = <<countFrom(patrol.grid, patrol.start_x, patrol.start_y,
                                           patrol.start_dir, patrol.l.visited, 0)>>,
                     !.pc = "returned"]
    /\ UNCHANGED <<day17Vars, warehouse, disk>>

NextDay06Part2 == solve_part2Patrol \/ solve_part2Count

SpecDay06Part2 == InitDay06Part2 /\ [][NextDay06Part2]_vars /\ WF_vars(NextDay06Part2)

\* ------------------------------------------------------------------ day09
\* the disk maps: strings of digits
DiskMaps ==
    UNION { [1..n -> { Digit[d + 1] : d \in 0..MaxDigit }] : n \in 1..MaxMapLen }

\* j copies of block
Blocks(block, j) == [i \in 1..j |-> block]

RECURSIVE parseFrom(_, _, _)
\* the for loop of parse_disk_map from the character with index i
parseFrom(disk_map, i, file_index) ==
    IF i >= Len(disk_map) THEN <<>>
    ELSE LET length == DigitValue(disk_map[i + 1])
         IN  IF i % 2 = 0
             THEN Blocks(file_index, length) \o parseFrom(disk_map, i + 1, file_index + 1)
             ELSE Blocks(-1, length) \o parseFrom(disk_map, i + 1, file_index)

parse_disk_map(disk_map) == parseFrom(disk_map, 0, 0)

RECURSIVE checksumFrom(_, _)
\* the for loop of calculate_checksum from index i
checksumFrom(blocks, i) ==
    IF i >= Len(blocks) THEN 0
    ELSE (IF blocks[i + 1] # -1 THEN i * blocks[i + 1] ELSE 0) + checksumFrom(blocks, i + 1)

calculate_checksum(blocks) == checksumFrom(blocks, 0)

\* what is read at an index in front of the vector's first element: some
\* int of the heap, which may be the free mark
InFrontOfDisk == {-1, 0}

\* find_first_free_space: std::ranges::find_if from begin() + start_index
\* for -1. With start_index < 0 the search starts in front of the vector,
\* where it reads stray.
find_first_free_space(blocks, start_index, stray) ==
    LET read(i) == IF i < 0 THEN stray ELSE blocks[i + 1]
        free == { i \in start_index..(Len(blocks) - 1) : read(i) = -1 }
    IN  IF free = {} THEN -1
        ELSE CHOOSE i \in free : \A j \in free : i <= j

\* find_last_file_block: find_if from rbegin() + (size - 1 - start_index)
\* for a block that is not -1
find_last_file_block(blocks, start_index) ==
    LET file == { i \in 0..start_index : blocks[i + 1] # -1 }
    IN  IF file = {} THEN -1
        ELSE CHOOSE i \in file : \A j \in file : i >= j

\* std::swap(disk[left], disk[right])
swap(blocks, left, right) ==
    [blocks EXCEPT ![left + 1] = blocks[right + 1], ![right + 1] = blocks[left + 1]]

InitDay09 ==
    /\ \E disk_map \in DiskMaps :
          disk = [pc |-> "entry", disk_map |-> disk_map, disk |-> <<>>,
                  left |-> 0, right |-> 0, outside |-> FALSE, ret |-> <<>>]
    /\ NoDay17
    /\ warehouse = NoWarehouse
    /\ patrol = NoPatrol

\* solve_part1 up to its loop: parse_disk_map, the return of "0" for an
\* empty disk, left and right
solve_part1Begin ==
    /\ disk.pc = "entry"
    /\ LET blocks == parse_disk_map(disk.disk_map)
       IN  disk' = IF blocks = <<>>
                   THEN [disk EXCEPT !.pc = "returned", !.ret = to_string(0)]
                   ELSE [disk EXCEPT !.pc = "loop", !.disk = blocks,
                                     !.left = 0, !.right = Len(blocks) - 1]
    /\ UNCHANGED <<day17Vars, warehouse, patrol>>

\* one pass of while (left < right); outside records that the search of
\* find_first_free_space started in front of the vector
solve_part1Compact ==
    /\ disk.pc = "loop"
    /\ disk.left < disk.right
    /\ \E stray \in InFrontOfDisk :
          LET left == find_first_free_space(disk.disk, disk.left, stray)
              right == find_last_file_block(disk.disk, disk.right)
          IN  disk' = [disk EXCEPT
                          !.left = left, !.right = right,
                          !.outside = @ \/ disk.left < 0,
                          !.disk = IF left # -1 /\ right # -1 /\ left < right
                                   THEN swap(@, left, right) ELSE @]
    /\ UNCHANGED <<day17Vars, warehouse, patrol>>

\* the loop is over: return std::to_string(calculate_checksum(disk))
solve_part1Return ==
    /\ disk.pc = "loop"
    /\ ~(disk.left < disk.right)
    /\ disk' = [disk EXCEPT !.pc = "returned",
                            !.ret = to_string(calculate_checksum(disk.disk))]
    /\ UNCHANGED <<day17Vars, warehouse, patrol>>

NextDay09 == solve_part1Begin \/ solve_part1Compact \/ solve_part1Return

\* solve_part1 runs on once it is called
SpecDay09 == InitDay09 /\ [][NextDay09]_vars /\ WF_vars(NextDay09)

\* ------------------------------------------------- vocabulary of the claims
ip(c) == state_[c].instructionPointer

\* the opcode and operand at the pointer of a Computer that can fetch both
Opcode(c) == program_[c][ip(c) + 1]
Operand(c) == program_[c][ip(c) + 2]

CanFetch(c) == ip(c) + 1 < Len(program_[c])

\* this step is executeInstruction of c getting through its switch
Executes(c) ==
    /\ pc[c] \in {"body", "direct"}
    /\ pc'[c] \notin {pc[c], "threw"}
    /\ ~isHalted(c)

\* this step is executeInstruction of c, whatever it does
Attempts(c) ==
    /\ pc[c] \in {"body", "direct"}
    /\ pc'[c] # pc[c]

SameRegisters(c) ==
    /\ state_'[c].A = state_[c].A
    /\ state_'[c].B = state_[c].B
    /\ state_'[c].C = state_[c].C

IsPrefix(s, t) == Len(s) <= Len(t) /\ SubSeq(t, 1, Len(s)) = s

Finished == {"returned", "threw"}

HaltedIffFewerThanTwoRemain ==
    \A c \in Computers :
        /\ isHalted(c) <=> ip(c) >= Len(program_[c])
        /\ ip(c) >= Len(program_[c]) <=> ~isInBounds(program_[c], ip(c))

\* C2, amended: a Computer is halted exactly when its pointer is at or past
\* the end of the program: run() returns only there and enters its body only
\* before it.  That is the same as fewer than two elements remaining at the
\* pointer except when the pointer is on the last element, where the Computer
\* is not halted.
HaltedExactlyPastEnd ==
    \A c \in Computers :
        /\ isHalted(c) <=> ip(c) >= Len(program_[c])
        /\ pc[c] = "returned" => ip(c) >= Len(program_[c])
        /\ pc[c] = "body" => ip(c) < Len(program_[c])
        /\ (ip(c) >= Len(program_[c]) <=> ~isInBounds(program_[c], ip(c)))
              <=> ip(c) # Len(program_[c]) - 1

\* run() is in its body with the pointer on a trailing opcode
WitnessTrailingOpcodeNotHalted ==
    \E c \in Computers :
        /\ pc[c] = "body"
        /\ ip(c) = Len(program_[c]) - 1
        /\ Len(output_[c]) > 0

\* C3: jnz with operand k moves the pointer by exactly 2 when A = 0 and to
\* exactly k when A # 0, and changes neither a register nor the output.
JnzSemantics ==
    [][\A c \in Computers :
          (Executes(c) /\ Opcode(c) = 3) =>
              /\ ip(c)' = IF state_[c].A = 0 THEN ip(c) + 2 ELSE Operand(c)
              /\ SameRegisters(c)
              /\ output_'[c] = output_[c]]_vars

\* a pointer of 1 is reached only by a taken jump
WitnessJnzTaken ==
    \E c \in Computers :
        /\ program_[c] = <<3, 1>>
        /\ ip(c) = 1
        /\ state_[c].A # 0

\* C4: every element of the output is in 0..7.
OutputInRange ==
    \A c \in Computers : \A i \in DOMAIN output_[c] : output_[c][i] \in 0..7

\* C5: the output only grows at its end: across a step the old output is a
\* prefix of the new one, one longer when the step executes opcode 5 and of
\* the same length otherwise.
OutputAppendOnly ==
    [][\A c \in Computers :
          /\ IsPrefix(output_[c], output_'[c])
          /\ Len(output_'[c]) = Len(output_[c])
                + (IF Executes(c) /\ Opcode(c) = 5 THEN 1 ELSE 0)]_vars

WitnessThreeEmits ==
    \E c \in Computers :
        /\ program_[c] = <<5, 0, 5, 1, 5, 4>>
        /\ Len(output_[c]) = 3
        /\ output_[c][1] # output_[c][2]

Countdown == <<0, 1, 5, 4, 3, 0>>

RECURSIVE HalvingDigits(_)
\* a halved until it is 0, each half reduced modulo 8
HalvingDigits(a) ==
    LET h == a \div 2
    IN  <<h % 8>> \o (IF h = 0 THEN <<>> ELSE HalvingDigits(h))

\* C6: for Program 0,1,5,4,3,0 and an initial A >= 0, run() returns; A is 0
\* then; every pass emits one value, A after halving modulo 8, so that the
\* output at the end is one value for each halving of the initial A.
CountdownHalts ==
    /\ \A c \in Computers :
          (program_[c] = Countdown /\ args.A >= 0 /\ pc[c] = "test")
              ~> (pc[c] = "returned")
    /\ [](\A c \in Computers :
            (program_[c] = Countdown /\ args.A >= 0 /\ pc[c] = "returned") =>
                /\ state_[c].A = 0
                /\ output_[c] = HalvingDigits(args.A))
    /\ [][\A c \in Computers :
            (program_[c] = Countdown /\ args.A >= 0 /\ Executes(c)
                /\ Opcode(c) = 5) =>
                output_'[c] = Append(output_[c], state_[c].A % 8)]_vars

WitnessCountdownReturned ==
    \E c \in Computers :
        /\ program_[c] = Countdown
        /\ pc[c] = "returned"
        /\ Len(output_[c]) >= 3

\* C7: run() always returns; here for Program 3,0 with A # 0, which the
\* claim names: once in run(), the Computer gets out of it.
JumpToSelfReturns ==
    \A c \in Computers :
        (program_[c] = <<3, 0>> /\ state_[c].A # 0 /\ pc[c] = "test")
            ~> (pc[c] \in Finished)

\* C8: a combo operand resolves from the operand and the registers alone:
\* 0..3 to itself, 4 to A, 5 to B, 6 to C, 7 to 0; so out with operand 4
\* emits A mod 8 (2 for A = 10) and not 4.
ComboResolution ==
    /\ [](\A c \in Computers : \A operand \in 0..7 :
            resolveCombo(state_[c], operand) =
                IF operand <= 3 THEN operand
                ELSE IF operand = 4 THEN state_[c].A
                ELSE IF operand = 5 THEN state_[c].B
                ELSE IF operand = 6 THEN state_[c].C
                ELSE 0)
    /\ [][\A c \in Computers :
            (Executes(c) /\ Opcode(c) = 5 /\ Operand(c) = 4
                /\ state_[c].A >= 0) =>
                output_'[c] = Append(output_[c], state_[c].A % 8)]_vars

WitnessEmitsRegisterA ==
    \E c \in Computers :
        /\ program_[c] = <<5, 0, 5, 1, 5, 4>>
        /\ state_[c].A = 10
        /\ output_[c] = <<0, 1, 2>>

RECURSIVE Quotient(_, _)
\* a / 2^v truncated, for a >= 0 and v >= 0
Quotient(a, v) == IF v = 0 \/ a = 0 THEN a ELSE Quotient(a \div 2, v - 1)

\* C9: for A >= 0 and a combo value v >= 0, adv, bdv and cdv store the
\* quotient A / 2^v in A, B and C respectively.
ShiftStoresQuotient ==
    [][\A c \in Computers :
          LET v == resolveCombo(state_[c], Operand(c))
          IN  (Executes(c) /\ Opcode(c) \in {0, 6, 7}
                 /\ state_[c].A >= 0 /\ v >= 0) =>
                  /\ Opcode(c) = 0 => state_'[c].A = Quotient(state_[c].A, v)
                  /\ Opcode(c) = 6 => state_'[c].B = Quotient(state_[c].A, v)
                  /\ Opcode(c) = 7 => state_'[c].C = Quotient(state_[c].A, v)]_vars

\* C10: a step attempted with the pointer on the last element of the program
\* fails, and leaves the registers, the pointer and the output as they were.
TruncatedStepFails ==
    [][\A c \in Computers :
          (Attempts(c) /\ ip(c) = Len(program_[c]) - 1) =>
              /\ pc'[c] = "threw"
              /\ state_'[c] = state_[c]
              /\ output_'[c] = output_[c]]_vars

WitnessThrewAfterEmit ==
    \E c \in Computers :
        /\ pc[c] = "threw"
        /\ ip(c) = Len(program_[c]) - 1
        /\ Len(output_[c]) > 0

\* C11: in an even-length program whose jnz instructions at even indices
\* all have even operands, the pointer is always even, and a Computer that is
\* not halted has its operand inside the program.
EvenPointer ==
    \A c \in Computers :
        LET p == program_[c]
            aligned ==
                /\ Len(p) % 2 = 0
                /\ \A i \in 0..(Len(p) - 1) :
                      (i % 2 = 0 /\ p[i + 1] = 3) => p[i + 2] % 2 = 0
        IN  aligned =>
                /\ ip(c) % 2 = 0
                /\ ~isHalted(c) => ip(c) + 1 < Len(p)

\* the loop has jumped back at least once
WitnessJumpedBackAligned ==
    \E c \in Computers :
        /\ program_[c] = Countdown
        /\ Len(output_[c]) >= 2
        /\ ip(c) = 2

\* C12: an instruction writes its destination only: adv A; bxl, bst, bxc and
\* bdv B; cdv C; out and jnz no register.  No step changes the program.  The
\* result of bxc is B xor C whatever its operand is.
FrameOfInstructions ==
    /\ [][\A c \in Computers :
            /\ program_'[c] = program_[c]
            /\ Executes(c) =>
                 /\ Opcode(c) # 0 => state_'[c].A = state_[c].A
                 /\ Opcode(c) \notin {1, 2, 4, 6} => state_'[c].B = state_[c].B
                 /\ Opcode(c) # 7 => state_'[c].C = state_[c].C
                 /\ Opcode(c) = 4 =>
                      state_'[c].B = Xor(state_[c].B, state_[c].C)]_vars
    /\ [](\A c \in Computers : \A operand \in 0..7 :
            bxc(state_[c], operand) = bxc(state_[c], 0))

WitnessBxcWithOperand ==
    \E c \in Computers :
        /\ program_[c] = <<4, 7>>
        /\ ip(c) = 2
        /\ state_[c].B # args.B

\* C13: bxl executed twice with the same literal leaves B as it was before
\* the first, and A and C as they were, for negative B too.
BxlTwiceRestores ==
    \A c \in Computers :
        (program_[c] \in BxlTwice /\ ip(c) = 4) =>
            /\ state_[c].B = args.B
            /\ state_[c].A = args.A
            /\ state_[c].C = args.C

WitnessBxlTwiceNegative ==
    \E c \in Computers :
        /\ program_[c] = <<1, 7, 1, 7>>
        /\ ip(c) = 4
        /\ args.B < 0

\* C14: adv, bdv and cdv with a combo value of 0 (operand 0 among them)
\* write A itself: adv leaves A, bdv sets B = A, cdv sets C = A.
ShiftByZeroKeepsA ==
    [][\A c \in Computers :
          (Executes(c) /\ Opcode(c) \in {0, 6, 7}
              /\ resolveCombo(state_[c], Operand(c)) = 0) =>
              /\ Opcode(c) = 0 => state_'[c].A = state_[c].A
              /\ Opcode(c) = 6 => state_'[c].B = state_[c].A
              /\ Opcode(c) = 7 => state_'[c].C = state_[c].A]_vars

WitnessCdvZero ==
    \E c \in Computers :
        /\ program_[c] = <<7, 0>>
        /\ ip(c) = 2
        /\ args.A < 0
        /\ state_[c].C = args.A

\* C15: a Computer with an empty program is halted from the start: run()
\* never enters its body, the output stays empty, the registers keep their
\* initial values and the pointer stays 0.
EmptyProgramHalted ==
    \A c \in Computers :
        Len(program_[c]) = 0 =>
            /\ isHalted(c)
            /\ pc[c] \notin {"body", "threw"}
            /\ output_[c] = <<>>
            /\ state_[c] = [A |-> args.A, B |-> args.B, C |-> args.C,
                            instructionPointer |-> 0]

WitnessEmptyProgramReturned ==
    \E c \in Computers :
        /\ Len(program_[c]) = 0
        /\ pc[c] = "returned"

RECURSIVE TrimLeft(_)
TrimLeft(str) == IF str # <<>> /\ IsSpace(str[1]) THEN TrimLeft(Tail(str)) ELSE str

RECURSIVE TrimRight(_)
TrimRight(str) ==
    IF str # <<>> /\ IsSpace(str[Len(str)])
    THEN TrimRight(SubSeq(str, 1, Len(str) - 1))
    ELSE str

Trim(str) == TrimLeft(TrimRight(str))

\* a line without its leading and trailing white space and with exactly one
\* space after its colon
TidyLine(line) ==
    LET t == Trim(line)
    IN  IF \E i \in 1..Len(t) : t[i] = ":"
        THEN LET i == CHOOSE k \in 1..Len(t) :
                          t[k] = ":" /\ \A j \in 1..(k - 1) : t[j] # ":"
             IN  SubSeq(t, 1, i) \o <<" ">> \o TrimLeft(SubSeq(t, i + 1, Len(t)))
        ELSE t

Tidy(lines) == [i \in 1..Len(lines) |-> TidyLine(lines[i])]

HasRegisterB(lines) ==
    \E i \in 1..Len(lines) : starts_with(Trim(lines[i]), RegisterBPrefix)

\* C16: runProgram on an input without a "Register B:" line fails in
\* parsing; it gets no further, so no Computer is constructed or run.
MissingRegisterBFails ==
    \A c \in Computers :
        (~HasRegisterB(input) /\ pc[c] \notin {"entry", "part2_done"}) =>
            pc[c] = "parse_threw"

\* C17: parseInput gives the same registers and program (or fails the same
\* way) as on the same lines without leading and trailing white space and
\* with one space after each colon.
WhitespaceInsignificant ==
    \A c \in Computers :
        pc[c] \in {"parsed", "parse_threw"} => parsed = parseInput(Tidy(input))

Commas(str) == Cardinality({i \in 1..Len(str) : str[i] = ","})

Part2NotImplemented ==
    \A c \in Computers :
        pc[c] = "part2_done" =>
            /\ result = NotImplemented
            /\ parsed = ParsedInput
            /\ program_[c] = <<>>
            /\ output_[c] = <<>>
            /\ state_[c].instructionPointer = 0

WitnessPart2Called ==
    \E c \in Computers :
        /\ pc[c] = "part2_done"
        /\ parseInput(input).program = <<5, 0, 5, 1, 5, 4>>

\* C25: halted is terminal. A step taken while instructionPointer is at or
\* past the end of the program, be it executeInstruction or the loop test
\* of run(), leaves A, B, C, the pointer and the output as they are and does
\* not throw; so a second run() leaves the output unchanged.
HaltedIsTerminal ==
    [][\A c \in Computers :
          isHalted(c) =>
             /\ state_'[c] = state_[c]
             /\ output_'[c] = output_[c]
             /\ pc'[c] # "threw"
             /\ pc[c] = "test" => pc'[c] = "returned"]_vars

\* executeInstruction has been called on a Computer that halted after
\* emitting
WitnessCalledWhenHalted ==
    \E c \in Computers :
        /\ pc[c] = "direct"
        /\ isHalted(c)
        /\ output_[c] # <<>>
        /\ program_[c] # <<>>

RegistersWithin(regs, w) ==
    /\ regs.A \in 0..(2 ^ w - 1)
    /\ regs.B \in 0..(2 ^ w - 1)
    /\ regs.C \in 0..(2 ^ w - 1)

\* C26: registers never grow. If the registers the Computer was constructed
\* with are all in 0..2^w - 1, for a w of at least 3, then A, B and C are in
\* 0..2^w - 1 in every state.
RegistersNeverGrow ==
    \A c \in Computers : \A w \in 3..8 :
        RegistersWithin(args, w) => RegistersWithin(state_[c], w)

\* bxc has written 64 ^ 9 = 73, more than B and C were, to B of a Computer
\* constructed with A = 10, B = 64 and C = 9
WitnessRegisterRewritten ==
    \E c \in Computers :
        /\ args = [A |-> 10, B |-> 64, C |-> 9]
        /\ state_[c].B = 73

\* the cell k steps from p in the direction of delta
Ahead(p, delta, k) == [x |-> p.x + k * delta.x, y |-> p.y + k * delta.y]

\* the number of boxes in a row ahead of the robot, before the last call
RunLength(w) ==
    LET delta == get_delta(w.dir)
        far == Len(w.grid_before) + Len(w.grid_before[1])
    IN  CHOOSE n \in 0..far :
            /\ \A k \in 1..n : Tile(w.grid_before, Ahead(w.robot_before, delta, k)) = "O"
            /\ Tile(w.grid_before, Ahead(w.robot_before, delta, n + 1)) # "O"

\* the cells of that run
Run(w) ==
    { Ahead(w.robot_before, get_delta(w.dir), k) : k \in 1..RunLength(w) }

\* the cell behind the run: the one ahead of the robot when there is no box
BehindRun(w) == Ahead(w.robot_before, get_delta(w.dir), RunLength(w) + 1)

Holding(grid, ch) == { p \in Cells(grid) : Tile(grid, p) = ch }

\* C21: try_move_part1 returns false exactly when the cell ahead of the
\* robot is a wall or the run of boxes ahead of it ends at a wall, and then
\* the grid and robot_pos are as before; otherwise it returns true, the robot
\* is one cell further in the direction, every box of the run is one cell
\* further in the direction, and nothing else has changed.
MovePart1 ==
    (warehouse.part = 1 /\ warehouse.ret # <<>>) =>
        LET w == warehouse
            delta == get_delta(w.dir)
            blocked == Tile(w.grid_before, BehindRun(w)) = "#"
        IN  /\ w.ret = <<FALSE>> <=> blocked
            /\ blocked => (w.grid = w.grid_before /\ w.robot_pos = w.robot_before)
            /\ ~blocked =>
                 /\ w.robot_pos = Plus(w.robot_before, delta)
                 /\ Holding(w.grid, "@") = {w.robot_pos}
                 /\ Holding(w.grid, "O") =
                       (Holding(w.grid_before, "O") \ Run(w))
                          \cup { Plus(p, delta) : p \in Run(w) }
                 /\ Holding(w.grid, "#") = Holding(w.grid_before, "#")
                 /\ \A y \in 1..Len(w.grid) : Len(w.grid[y]) = Len(w.grid_before[y])
                 /\ Len(w.grid) = Len(w.grid_before)

\* a run of two boxes has been pushed
WitnessPushedTwoBoxes ==
    /\ warehouse.part = 1
    /\ warehouse.ret = <<TRUE>>
    /\ RunLength(warehouse) = 2

Right(p) == [x |-> p.x + 1, y |-> p.y]
Left(p) == [x |-> p.x - 1, y |-> p.y]

\* C27: after any sequence of try_move_part2 calls on an expanded
\* wall-enclosed map, every '[' has a ']' to its right and every ']' a '['
\* to its left; the number of boxes, the wall cells and the length of every
\* row are what they were before the call (and so what they were at the
\* start); exactly one '@' is in the grid, at robot_pos; and a call that
\* returned false left the grid and robot_pos as they were.
WideBoxesIntact ==
    warehouse.part = 2 =>
        LET w == warehouse
        IN  /\ \A p \in Holding(w.grid, "[") :
                  Right(p) \in Cells(w.grid) /\ Tile(w.grid, Right(p)) = "]"
            /\ \A p \in Holding(w.grid, "]") :
                  Left(p) \in Cells(w.grid) /\ Tile(w.grid, Left(p)) = "["
            /\ Cardinality(Holding(w.grid, "[")) =
                  Cardinality(Holding(w.grid_before, "["))
            /\ Holding(w.grid, "#") = Holding(w.grid_before, "#")
            /\ Len(w.grid) = Len(w.grid_before)
            /\ \A y \in 1..Len(w.grid) : Len(w.grid[y]) = Len(w.grid_before[y])
            /\ Holding(w.grid, "@") = {w.robot_pos}
            /\ w.ret = <<FALSE>> =>
                  (w.grid = w.grid_before /\ w.robot_pos = w.robot_before)

\* a vertical push has moved two boxes that are in different columns
WitnessPushedStaggeredBoxes ==
    /\ warehouse.part = 2
    /\ warehouse.ret = <<TRUE>>
    /\ warehouse.dir \in {"Up", "Down"}
    /\ LET gone == Holding(warehouse.grid_before, "[") \ Holding(warehouse.grid, "[")
       IN  \E p \in gone, q \in gone : p.x # q.x /\ p.y # q.y

\* a horizontal push has moved two boxes
WitnessPushedBoxesSideways ==
    /\ warehouse.part = 2
    /\ warehouse.ret = <<TRUE>>
    /\ warehouse.dir = "Left"
    /\ Cardinality(Holding(warehouse.grid_before, "[") \ Holding(warehouse.grid, "[")) = 2

\* The guard's protocol, as the puzzle states it: with an obstacle (or the
\* added obstruction) directly in front, turn right; otherwise step forward.
Clockwise(dir) ==
    CASE dir = "UP" -> "RIGHT" [] dir = "RIGHT" -> "DOWN"
      [] dir = "DOWN" -> "LEFT" [] dir = "LEFT" -> "UP"

InFront(g) ==
    CASE g.dir = "UP"    -> [x |-> g.x, y |-> g.y - 1]
      [] g.dir = "RIGHT" -> [x |-> g.x + 1, y |-> g.y]
      [] g.dir = "DOWN"  -> [x |-> g.x, y |-> g.y + 1]
      [] g.dir = "LEFT"  -> [x |-> g.x - 1, y |-> g.y]

InGrid(grid, g) == [x |-> g.x, y |-> g.y] \in Cells(grid)

GuardMove(grid, obstruction, g) ==
    LET front == InFront(g)
    IN  IF front \in Cells(grid) /\ (Tile(grid, front) = "#" \/ front \in obstruction)
        THEN [g EXCEPT !.dir = Clockwise(g.dir)]
        ELSE [g EXCEPT !.x = front.x, !.y = front.y]

RECURSIVE WalkFrom(_, _, _, _)
\* the guard's states in order, up to the first one outside the grid, n
\* moves at most
WalkFrom(grid, obstruction, g, n) ==
    IF n = 0 \/ ~InGrid(grid, g) THEN <<g>>
    ELSE <<g>> \o WalkFrom(grid, obstruction, GuardMove(grid, obstruction, g), n - 1)

\* so many moves bring the guard outside or into a state it has been in
Moves(grid) == 4 * Cardinality(Cells(grid))

Walk(grid, obstruction, x, y, dir) ==
    WalkFrom(grid, obstruction, [x |-> x, y |-> y, dir |-> dir], Moves(grid))

Leaves(grid, walk) == ~InGrid(grid, walk[Len(walk)])

Repeats(walk) == \E i \in 1..Len(walk), j \in 1..Len(walk) : i < j /\ walk[i] = walk[j]

WalkOf(p) ==
    Walk(p.grid, { p.obstruction_pos[i] : i \in 1..Len(p.obstruction_pos) },
         p.start_x, p.start_y, p.start_dir)

\* C22: simulate_with_loop_detection comes to its return for every grid,
\* start and obstruction; it returns true exactly when the guard comes into a
\* (position, direction) it has been in, and false exactly when the guard
\* steps outside the grid.
LoopDetection ==
    /\ [](patrol.fn = "simulate_with_loop_detection" /\ patrol.pc = "returned" =>
            /\ patrol.l.ret = <<TRUE>> <=> Repeats(WalkOf(patrol))
            /\ patrol.l.ret = <<FALSE>> <=> Leaves(patrol.grid, WalkOf(patrol)))
    /\ (patrol.fn = "simulate_with_loop_detection") ~> (patrol.pc = "returned")

\* an added obstruction has closed a loop: true was returned, and without
\* the obstruction the guard leaves
WitnessObstructionClosedLoop ==
    /\ patrol.fn = "simulate_with_loop_detection"
    /\ patrol.pc = "returned"
    /\ patrol.l.ret = <<TRUE>>
    /\ patrol.obstruction_pos # <<>>
    /\ Leaves(patrol.grid,
              Walk(patrol.grid, {}, patrol.start_x, patrol.start_y, patrol.start_dir))

\* C23: simulate_patrol comes to its return for every grid and start, with
\* the guard outside the grid, and returns the number of distinct cells the
\* guard was on.
PatrolLeaves ==
    /\ [](patrol.fn = "simulate_patrol" /\ patrol.pc = "returned" =>
            LET walk == WalkOf(patrol)
            IN  /\ Leaves(patrol.grid, walk)
                /\ patrol.l.ret =
                     <<Cardinality({ <<walk[i].x, walk[i].y>> : i \in 1..(Len(walk) - 1) })>>)
    /\ (patrol.fn = "simulate_patrol") ~> (patrol.pc = "returned")

\* the empty cells other than the start where an obstruction makes the
\* guard loop
LoopingObstructions(p) ==
    { c \in Cells(p.grid) :
        /\ Tile(p.grid, c) # "#"
        /\ c # [x |-> p.start_x, y |-> p.start_y]
        /\ Repeats(Walk(p.grid, {c}, p.start_x, p.start_y, p.start_dir)) }

Occurrences(blocks, b) == Cardinality({ i \in 1..Len(blocks) : blocks[i] = b })

\* C24: for every disk map, also one without a free block, the compaction
\* loop of day09 solve_part1 comes to its end, never reads the disk outside
\* 0..size-1, keeps the blocks the disk has (each as often as it was there),
\* and ends with no free block in front of a file block.
CompactionContract ==
    /\ [](~disk.outside)
    /\ [](disk.pc \in {"loop", "returned"} =>
            \A b \in -1..MaxMapLen :
                Occurrences(disk.disk, b) = Occurrences(parse_disk_map(disk.disk_map), b))
    /\ [](disk.pc = "returned" =>
            \A i \in 1..Len(disk.disk), j \in 1..Len(disk.disk) :
                (disk.disk[i] = -1 /\ disk.disk[j] # -1) => j < i)
    /\ <>(disk.pc = "returned")

Divides(d, n) == n % d = 0

IsGreatestCommonDivisor(g, a, b) ==
    /\ g > 0 /\ Divides(g, a) /\ Divides(g, b)
    /\ \A d \in 1..a : (Divides(d, a) /\ Divides(d, b)) => d <= g

IsLeastCommonMultiple(l, a, b) ==
    /\ l > 0 /\ Divides(a, l) /\ Divides(b, l)
    /\ \A m \in 1..(l - 1) : ~(Divides(a, m) /\ Divides(b, m))

\* C20: for positive a and b, gcd(a, b) returns the greatest common divisor
\* and lcm(a, b) the least common multiple, with gcd * lcm = a * b; and gcd
\* comes to its end for every pair of arguments: it never stops in a trap.
GcdLcmContract ==
    /\ math.op = "gcd" => math.pc # "trapped"
    /\ (math.op = "gcd" /\ math.x > 0 /\ math.y > 0 /\ math.pc = "returned") =>
          IsGreatestCommonDivisor(math.ret, math.x, math.y)
    /\ (math.op = "lcm" /\ math.x > 0 /\ math.y > 0
          /\ math.pc \in {"returned", "trapped"}) =>
          /\ math.pc = "returned"
          /\ IsLeastCommonMultiple(math.ret, math.x, math.y)
          /\ math.g * math.ret = math.x * math.y

TypeOK ==
    /\ build \in Builds
    /\ \A c \in Computers :
         /\ program_[c] \in Programs
         /\ state_[c].instructionPointer \in 0..9
         /\ pc[c] \in {"ready", "test", "body", "direct", "returned", "threw"}
====
